---- MODULE Spec2Model ----
(***************************************************************************)
(* Job Aligner AI: the view state of App (src/App.tsx), its event handlers *)
(* and the completion client (services/geminiService, src/unnamed/part_001)*)
(* as a state machine.  One action per handler or per continuation of an   *)
(* awaited promise; text values are TLA+ strings, nullable values are      *)
(* sequences of length 0 (null) or 1.                                      *)
(***************************************************************************)
EXTENDS Integers, Sequences, FiniteSets, TLC

(* ------------------------------ bounds --------------------------------- *)
\* most operations (file parses, generation calls) the model lets be in flight
MaxPending == 2
\* most clipboard writes the model lets be in flight
MaxClipPending == 1
\* the step of the model's clock, in milliseconds
TickMs == 1000
\* most tokens a rendered analysis text is made of
MaxTokens == 4

(* --------------------------- program constants ------------------------- *)
\* setTimeout(() => setCopySuccess(false), 2000)
CopyTimeoutMs == 2000

(* ------------------------- nullable values ----------------------------- *)
Null == << >>
Some(v) == << v >>
\* JavaScript truthiness of a string | null
Truthy(v) == v # Null /\ v[1] # ""

(* --------------------------- string helpers ---------------------------- *)
WhiteSpace == {" ", "\n", "\t", "\r"}
CharAt(s, i) == SubSeq(s, i, i)
SetMin(S) == CHOOSE x \in S : \A y \in S : x <= y
SetMax(S) == CHOOSE x \in S : \A y \in S : x >= y
\* String.prototype.trim
Trim(s) ==
    LET keep == {i \in 1..Len(s) : CharAt(s, i) \notin WhiteSpace}
    IN  IF keep = {} THEN "" ELSE SubSeq(s, SetMin(keep), SetMax(keep))
\* String.prototype.includes
Includes(s, sub) ==
    \E i \in 1..(Len(s) - Len(sub) + 1) : SubSeq(s, i, i + Len(sub) - 1) = sub
\* String.prototype.endsWith
EndsWith(s, suffix) ==
    /\ Len(s) >= Len(suffix)
    /\ SubSeq(s, Len(s) - Len(suffix) + 1, Len(s)) = suffix

(* ------------------------------ values --------------------------------- *)
\* a thrown value: an Error with a message, or something that is no Error
Error(msg) == [isError |-> TRUE, message |-> msg]
NonError == [isError |-> FALSE, message |-> ""]
Return(v) == [ok |-> TRUE, value |-> v]
Throw(e) == [ok |-> FALSE, thrown |-> e]

ResumeErrorMsg == "Resume content cannot be empty."
JobDescErrorMsg == "Job description(s) cannot be empty."
UnexpectedErrorMsg == "An unexpected error occurred."
ConfigErrorMsg ==
    "Gemini API Key is not configured. Please set the API_KEY environment variable."
EmptyResponseMsg == "Received an empty response from the AI."
AuthErrorMsg == "Invalid or missing Gemini API Key. Please check your configuration."
SummaryFailedMsg == "Failed to generate summary from AI. Please try again later."
CoverLetterFailedMsg == "Failed to generate cover letter from AI. Please try again later."
RefineFailedMsg == "Failed to refine resume from AI. Please try again later."
UnsupportedFileMsg == "Unsupported file type. Please upload a PDF or .docx file."
UnknownErrorMsg == "An unknown error occurred."
ParseFailedPrefix == "Failed to parse file. "

ActionKinds == {"analyze", "cover-letter", "refine-resume"}

(* ------------------------------ inputs --------------------------------- *)
\* what the user types into the resume and job-description fields
ResumeInputs == {"", " ", "cv"}
JobDescInputs == {" ", "jd"}
\* what the user types into an editable result panel
EditInputs == {"", "B"}
\* process.env.API_KEY
ApiKeys == {Null, Some(""), Some("key")}
\* response.text of a resolved generateContent call
ResponseTexts == {"", " ", " A "}
\* what a rejected generateContent call throws
NetworkFailures ==
    { Error("API_KEY_INVALID"),
      Error("API key not valid. Please pass a valid API key."),
      Error("fetch failed"),
      NonError }
NetworkOutcomes ==
    {Return(t) : t \in ResponseTexts} \cup {Throw(e) : e \in NetworkFailures}
\* uploaded files: name and declared media type
FileNames == {"cv.pdf", "cv.docx", "cv.DOCX", "cv.txt"}
DocxMediaType ==
    "application/vnd.openxmlformats-officedocument.wordprocessingml.document"
FileTypes == {"application/pdf", DocxMediaType, ""}
Files == [name : FileNames, type : FileTypes]
\* the pages of a PDF, each the str of its text items
PdfDocuments ==
    { << <<"Hello", "World">>, <<"Foo", "Bar">> >>,
      << <<"One">>, << >> >>,
      << >> }
\* result.value of mammoth.extractRawText
DocxTexts == {"docx text"}
\* what pdf.js or mammoth throw on a file they cannot read
LibraryFailures == {Error("Invalid PDF structure."), NonError}

VARIABLES
    apiKey,          \* API_KEY, read once at start-up
    resume, jobDescriptions,
    summary, coverLetter, refinedResume,
    error, resumeError, jobDescError,
    isParsing, resumeFileName, activeAction, copySuccess,
    pending,         \* awaited operations in flight, in the order started
    clipPending,     \* clipboard writes in flight
    timers,          \* milliseconds left of each pending setTimeout
    sinceCopy        \* milliseconds since the last successful copy (capped)

vars == << apiKey, resume, jobDescriptions, summary, coverLetter, refinedResume,
           error, resumeError, jobDescError, isParsing, resumeFileName,
           activeAction, copySuccess, pending, clipPending, timers, sinceCopy >>

inputVars == << resume, jobDescriptions, resumeError, jobDescError, resumeFileName >>
resultVars == << summary, coverLetter, refinedResume >>
copyVars == << copySuccess, clipPending, timers, sinceCopy >>

Init ==
    /\ apiKey \in ApiKeys
    /\ resume = ""
    /\ jobDescriptions = ""
    /\ summary = Null
    /\ coverLetter = Null
    /\ refinedResume = Null
    /\ error = Null
    /\ resumeError = Null
    /\ jobDescError = Null
    /\ isParsing = FALSE
    /\ resumeFileName = Null
    /\ activeAction = Null
    /\ copySuccess = FALSE
    /\ pending = << >>
    /\ clipPending = 0
    /\ timers = {}
    /\ sinceCopy = Null

(* ----------------------- completion client ----------------------------- *)
\* fault variant of CheckApiKey: the credential is never checked
CheckApiKey_NoCheck(key) == Return("")

\* if (!API_KEY) throw new Error("Gemini API Key is not configured...")
\* the first statement of each of the three functions, before the try block
CheckApiKey(key) ==
    IF ~Truthy(key) THEN Throw(Error(ConfigErrorMsg)) ELSE Return("")

\* fault variant of IsAuthFailure: only API_KEY_INVALID is recognised
IsAuthFailure_OnlyInvalid(e) ==
    e.isError /\ Includes(e.message, "API_KEY_INVALID")

\* error.message.includes("API_KEY_INVALID") || error.message.includes("API key")
IsAuthFailure(e) ==
    /\ e.isError
    /\ Includes(e.message, "API_KEY_INVALID") \/ Includes(e.message, "API key")

\* fault variant of TryGenerate: an empty response.text is returned as a result
TryGenerate_NoEmptyCheck(outcome, trimmed) ==
    IF outcome.ok
    THEN Return(IF trimmed THEN Trim(outcome.value) ELSE outcome.value)
    ELSE outcome

\* the try block: the awaited call, then the check of response.text
TryGenerate(outcome, trimmed) ==
    IF outcome.ok
    THEN IF outcome.value = ""
         THEN Throw(Error(EmptyResponseMsg))
         ELSE Return(IF trimmed THEN Trim(outcome.value) ELSE outcome.value)
    ELSE outcome

\* the catch block: whatever the try block threw is replaced
CatchGenerate(tried, genericMsg) ==
    IF tried.ok THEN tried
    ELSE IF IsAuthFailure(tried.thrown) THEN Throw(Error(AuthErrorMsg))
    ELSE Throw(Error(genericMsg))

generateAlignmentSummary(outcome) ==
    CatchGenerate(TryGenerate(outcome, FALSE), SummaryFailedMsg)
generateCoverLetter(outcome) ==
    CatchGenerate(TryGenerate(outcome, FALSE), CoverLetterFailedMsg)
refineResumeForATS(outcome) ==
    CatchGenerate(TryGenerate(outcome, TRUE), RefineFailedMsg)

\* the function each handler awaits
Generate(kind, outcome) ==
    CASE kind = "analyze" -> generateAlignmentSummary(outcome)
      [] kind = "cover-letter" -> generateCoverLetter(outcome)
      [] kind = "refine-resume" -> refineResumeForATS(outcome)

(* ---------------------------- view logic ------------------------------- *)
\* Button: disabled={disabled || isLoading}
ButtonDisabled(disabled, isLoading) == disabled \/ isLoading
\* fault variant of ControlsDisabled: a running file parse disables nothing
ControlsDisabled_IgnoresParsing == activeAction # Null

\* disabled={isParsing || activeAction !== null}
ControlsDisabled == isParsing \/ activeAction # Null
ActionDisabled(kind) == ButtonDisabled(ControlsDisabled, activeAction = Some(kind))
UploadDisabled == ButtonDisabled(ControlsDisabled, FALSE)

\* fault variant of clearResults: earlier results are kept
clearResults_KeepsResults == UNCHANGED << summary, coverLetter, refinedResume >>

\* clearResults
clearResults ==
    /\ summary' = Null
    /\ coverLetter' = Null
    /\ refinedResume' = Null

\* fault variant of validateInputs: the fields are tested without trim()
validateInputs_NoTrim == resume # "" /\ jobDescriptions # ""

\* validateInputs: the value it returns
validateInputs == Trim(resume) # "" /\ Trim(jobDescriptions) # ""
\* validateInputs: the inline errors it sets
SetValidationErrors ==
    /\ resumeError' = IF Trim(resume) = "" THEN Some(ResumeErrorMsg) ELSE Null
    /\ jobDescError' = IF Trim(jobDescriptions) = "" THEN Some(JobDescErrorMsg) ELSE Null

\* catch (err): err instanceof Error ? err.message : "An unexpected error occurred."
CaughtMessage(e) == IF e.isError THEN e.message ELSE UnexpectedErrorMsg

\* fault variant of FinishAction: setActiveAction(null) only on the success path
FinishAction_NoFinally(kind, res, prevError, prev) ==
    LET mine == IF res.ok THEN Some(res.value) ELSE Null
    IN  /\ summary' = IF kind = "analyze" THEN mine ELSE prev[1]
        /\ coverLetter' = IF kind = "cover-letter" THEN mine ELSE prev[2]
        /\ refinedResume' = IF kind = "refine-resume" THEN mine ELSE prev[3]
        /\ error' = IF res.ok THEN prevError ELSE Some(CaughtMessage(res.thrown))
        /\ activeAction' = IF res.ok THEN Null ELSE Some(kind)

\* the try / catch / finally of a handler once its awaited promise has settled
\* with res; prevError is the error and prev the three results as the handler
\* left them before the await
FinishAction(kind, res, prevError, prev) ==
    LET mine == IF res.ok THEN Some(res.value) ELSE Null
    IN  /\ summary' = IF kind = "analyze" THEN mine ELSE prev[1]
        /\ coverLetter' = IF kind = "cover-letter" THEN mine ELSE prev[2]
        /\ refinedResume' = IF kind = "refine-resume" THEN mine ELSE prev[3]
        /\ error' = IF res.ok THEN prevError ELSE Some(CaughtMessage(res.thrown))
        /\ activeAction' = Null

\* handleSummarize, handleGenerateCoverLetter, handleRefineResume up to the await;
\* a rejection before any network call is caught within the same task
StartAction(kind) ==
    /\ ~ActionDisabled(kind)
    /\ SetValidationErrors
    /\ UNCHANGED << apiKey, resume, jobDescriptions, resumeFileName, isParsing >>
    /\ UNCHANGED copyVars
    /\ IF ~validateInputs
       THEN UNCHANGED << summary, coverLetter, refinedResume, error,
                         activeAction, pending >>
       ELSE IF ~CheckApiKey(apiKey).ok
       THEN /\ FinishAction(kind, CheckApiKey(apiKey), Null, << Null, Null, Null >>)
            /\ UNCHANGED pending
       ELSE /\ Len(pending) < MaxPending
            /\ activeAction' = Some(kind)
            /\ error' = Null
            /\ clearResults
            /\ pending' = Append(pending, [op |-> kind, file |-> Null])

handleSummarize == StartAction("analyze")
handleGenerateCoverLetter == StartAction("cover-letter")
handleRefineResume == StartAction("refine-resume")

\* pending without its i-th entry
RemoveAt(q, i) ==
    [j \in 1..(Len(q) - 1) |-> IF j < i THEN q[j] ELSE q[j + 1]]

\* the continuation of a handler's await: generateContent has settled with outcome
NetworkSettle(i, outcome) ==
    /\ i \in 1..Len(pending)
    /\ pending[i].op \in ActionKinds
    /\ FinishAction(pending[i].op, Generate(pending[i].op, outcome), error,
                    << summary, coverLetter, refinedResume >>)
    /\ pending' = RemoveAt(pending, i)
    /\ UNCHANGED << apiKey, isParsing >>
    /\ UNCHANGED inputVars
    /\ UNCHANGED copyVars

(* --------------------------- resume upload ----------------------------- *)
RECURSIVE JoinWith(_, _)
\* Array.prototype.join
JoinWith(items, sep) ==
    IF items = << >> THEN ""
    ELSE IF Len(items) = 1 THEN items[1]
    ELSE items[1] \o sep \o JoinWith(Tail(items), sep)

\* fault variant of ExtractPdfText: the pages are joined by a newline, none
\* follows the last page
ExtractPdfText_NewlineBetweenPages(pages) ==
    JoinWith([p \in 1..Len(pages) |-> JoinWith(pages[p], " ")], "\n")

RECURSIVE ExtractPdfText(_)
\* for each page in order: fullText += items.map(item => item.str).join(' ') + '\n'
ExtractPdfText(pages) ==
    IF pages = << >> THEN ""
    ELSE JoinWith(pages[1], " ") \o "\n" \o ExtractPdfText(Tail(pages))

\* the branch handleFileSelect takes for a file
FileRoute(file) ==
    IF file.type = "application/pdf" THEN "pdf"
    ELSE IF EndsWith(file.name, ".docx") THEN "docx"
    ELSE "unsupported"

\* what the extractor of a route can settle with
ExtractOutcomes(route) ==
    (IF route = "pdf"
     THEN {Return(ExtractPdfText(doc)) : doc \in PdfDocuments}
     ELSE {Return(t) : t \in DocxTexts})
    \cup {Throw(e) : e \in LibraryFailures}

\* handleClearResume: the state it sets
ClearResume ==
    /\ resume' = ""
    /\ resumeFileName' = Null
    /\ resumeError' = Null

\* the catch and finally blocks of handleFileSelect
FailParse(e) ==
    /\ error' = Some(ParseFailedPrefix \o
                     (IF e.isError THEN e.message ELSE UnknownErrorMsg))
    /\ ClearResume
    /\ isParsing' = FALSE

\* handleFileSelect up to its first await; an unsupported file is rejected
\* within the same task
handleFileSelect(file) ==
    /\ ~UploadDisabled
    /\ UNCHANGED << apiKey, jobDescriptions, jobDescError, activeAction >>
    /\ UNCHANGED resultVars
    /\ UNCHANGED copyVars
    /\ IF FileRoute(file) = "unsupported"
       THEN /\ FailParse(Error(UnsupportedFileMsg))
            /\ UNCHANGED pending
       ELSE /\ Len(pending) < MaxPending
            /\ isParsing' = TRUE
            /\ error' = Null
            /\ resumeError' = Null
            /\ resume' = ""
            /\ resumeFileName' = Null
            /\ pending' = Append(pending, [op |-> "parse", file |-> Some(file)])

\* the continuation of handleFileSelect once the extractor has settled
ParseSettle(i, outcome) ==
    /\ i \in 1..Len(pending)
    /\ pending[i].op = "parse"
    /\ outcome \in ExtractOutcomes(FileRoute(pending[i].file[1]))
    /\ IF outcome.ok
       THEN /\ resume' = outcome.value
            /\ resumeFileName' = Some(pending[i].file[1].name)
            /\ isParsing' = FALSE
            /\ UNCHANGED << error, resumeError >>
       ELSE FailParse(outcome.thrown)
    /\ pending' = RemoveAt(pending, i)
    /\ UNCHANGED << apiKey, jobDescriptions, jobDescError, activeAction >>
    /\ UNCHANGED resultVars
    /\ UNCHANGED copyVars

\* the clear button of the file chip, shown when resumeFileName && !isParsing
handleClearResume ==
    /\ Truthy(resumeFileName) /\ ~isParsing
    /\ ClearResume
    /\ UNCHANGED << apiKey, jobDescriptions, jobDescError, error, isParsing,
                    activeAction, pending >>
    /\ UNCHANGED resultVars
    /\ UNCHANGED copyVars

(* ------------------------------ editing -------------------------------- *)
\* fault variant of TypeResume: the file name stays after a manual edit
TypeResume_KeepsFileName(v) ==
    /\ resume' = v
    /\ resumeError' = IF Truthy(resumeError) THEN Null ELSE resumeError
    /\ UNCHANGED << apiKey, jobDescriptions, jobDescError, error, isParsing,
                    activeAction, pending, resumeFileName >>
    /\ UNCHANGED resultVars
    /\ UNCHANGED copyVars

\* onChange of the resume text area
TypeResume(v) ==
    /\ resume' = v
    /\ resumeError' = IF Truthy(resumeError) THEN Null ELSE resumeError
    /\ resumeFileName' = IF Truthy(resumeFileName) THEN Null ELSE resumeFileName
    /\ UNCHANGED << apiKey, jobDescriptions, jobDescError, error, isParsing,
                    activeAction, pending >>
    /\ UNCHANGED resultVars
    /\ UNCHANGED copyVars

\* onChange of the job-description text area
TypeJobDescriptions(v) ==
    /\ jobDescriptions' = v
    /\ jobDescError' = IF Truthy(jobDescError) THEN Null ELSE jobDescError
    /\ UNCHANGED << apiKey, resume, resumeError, resumeFileName, error, isParsing,
                    activeAction, pending >>
    /\ UNCHANGED resultVars
    /\ UNCHANGED copyVars

\* the panels are rendered when their result is truthy and no action is active
Shown(result) == Truthy(result) /\ activeAction = Null

\* onChange of the cover-letter text area
EditCoverLetter(v) ==
    /\ Shown(coverLetter)
    /\ coverLetter' = Some(v)
    /\ UNCHANGED << apiKey, summary, refinedResume, error, isParsing,
                    activeAction, pending >>
    /\ UNCHANGED inputVars
    /\ UNCHANGED copyVars

\* onChange of the refined-resume text area
EditRefinedResume(v) ==
    /\ Shown(refinedResume)
    /\ refinedResume' = Some(v)
    /\ UNCHANGED << apiKey, summary, coverLetter, error, isParsing,
                    activeAction, pending >>
    /\ UNCHANGED inputVars
    /\ UNCHANGED copyVars

(* ------------------------------- copy ---------------------------------- *)
\* handleCopy: navigator.clipboard.writeText(textToCopy) is started
handleCopy ==
    /\ Shown(coverLetter)
    /\ clipPending < MaxClipPending
    /\ clipPending' = clipPending + 1
    /\ UNCHANGED << apiKey, error, isParsing, activeAction, pending,
                    copySuccess, timers, sinceCopy >>
    /\ UNCHANGED inputVars
    /\ UNCHANGED resultVars

\* the clipboard write settles; only its fulfilment has a continuation
ClipboardSettle(ok) ==
    /\ clipPending > 0
    /\ clipPending' = clipPending - 1
    /\ IF ok
       THEN /\ copySuccess' = TRUE
            /\ timers' = timers \cup {CopyTimeoutMs}
            /\ sinceCopy' = Some(0)
       ELSE UNCHANGED << copySuccess, timers, sinceCopy >>
    /\ UNCHANGED << apiKey, error, isParsing, activeAction, pending >>
    /\ UNCHANGED inputVars
    /\ UNCHANGED resultVars

\* a due timeout runs () => setCopySuccess(false)
TimerFire ==
    /\ 0 \in timers
    /\ copySuccess' = FALSE
    /\ timers' = timers \ {0}
    /\ UNCHANGED << apiKey, error, isParsing, activeAction, pending,
                    clipPending, sinceCopy >>
    /\ UNCHANGED inputVars
    /\ UNCHANGED resultVars

\* time passes, up to the next due timeout; a due timeout runs first
Tick ==
    /\ 0 \notin timers
    /\ LET d == IF timers = {} THEN TickMs
                ELSE IF SetMin(timers) < TickMs THEN SetMin(timers) ELSE TickMs
           later(t) == IF t + d > CopyTimeoutMs THEN CopyTimeoutMs + 1 ELSE t + d
       IN  /\ timers' = {t - d : t \in timers}
           /\ sinceCopy' = IF sinceCopy = Null THEN Null
                           ELSE Some(later(sinceCopy[1]))
    /\ UNCHANGED << apiKey, error, isParsing, activeAction, pending,
                    clipPending, copySuccess >>
    /\ UNCHANGED inputVars
    /\ UNCHANGED resultVars

(* --------------------------- specification ----------------------------- *)
Settle ==
    \/ \E i \in 1..MaxPending : \E o \in NetworkOutcomes : NetworkSettle(i, o)
    \/ \E i \in 1..MaxPending :
          \E o \in UNION {ExtractOutcomes(r) : r \in {"pdf", "docx"}} :
             ParseSettle(i, o)

Next ==
    \/ handleSummarize
    \/ handleGenerateCoverLetter
    \/ handleRefineResume
    \/ \E f \in Files : handleFileSelect(f)
    \/ handleClearResume
    \/ \E v \in ResumeInputs : TypeResume(v)
    \/ \E v \in JobDescInputs : TypeJobDescriptions(v)
    \/ \E v \in EditInputs : EditCoverLetter(v)
    \/ \E v \in EditInputs : EditRefinedResume(v)
    \/ handleCopy
    \/ \E ok \in BOOLEAN : ClipboardSettle(ok)
    \/ TimerFire
    \/ Tick
    \/ Settle

Spec == Init /\ [][Next]_vars

\* every awaited promise settles: the network call and the extractor
\* resolve or reject
FairSpec == Spec /\ WF_vars(Settle)

(* ------------------------- markdown renderer --------------------------- *)
\* String.prototype.startsWith
StartsWith(s, prefix) ==
    /\ Len(s) >= Len(prefix)
    /\ SubSeq(s, 1, Len(prefix)) = prefix
\* String.prototype.indexOf(sub, from): a 0-based index, or -1
IndexOf(s, sub, from) ==
    LET hits == {i \in from..(Len(s) - Len(sub)) : SubSeq(s, i + 1, i + Len(sub)) = sub}
    IN  IF hits = {} THEN -1 ELSE SetMin(hits)
\* String.prototype.substring(a, b): 0-based, arguments clamped and swapped
Substring(s, a, b) ==
    LET clamp(x) == IF x < 0 THEN 0 ELSE IF x > Len(s) THEN Len(s) ELSE x
        lo == IF clamp(a) <= clamp(b) THEN clamp(a) ELSE clamp(b)
        hi == IF clamp(a) <= clamp(b) THEN clamp(b) ELSE clamp(a)
    IN  SubSeq(s, lo + 1, hi)
SubstringFrom(s, a) == Substring(s, a, Len(s))

\* the last index of the run of \s characters that starts at index from
\* (from - 1 when the run is empty)
WhiteSpaceRunEnd(s, from) ==
    SetMax({from - 1} \cup
           {e \in from..Len(s) : \A j \in from..e : CharAt(s, j) \in WhiteSpace})

\* /\n\s*\n/ matched at index i: the index of its last character, or 0
BlankLineMatchEnd(s, i) ==
    IF CharAt(s, i) # "\n" THEN 0
    ELSE LET ends == {j \in (i + 1)..WhiteSpaceRunEnd(s, i + 1) : CharAt(s, j) = "\n"}
         IN  IF ends = {} THEN 0 ELSE SetMax(ends)

RECURSIVE SplitSections(_)
\* text.split(/\n\s*\n/)
SplitSections(s) ==
    LET starts == {i \in 1..Len(s) : BlankLineMatchEnd(s, i) > 0}
    IN  IF starts = {} THEN << s >>
        ELSE << SubSeq(s, 1, SetMin(starts) - 1) >> \o
             SplitSections(SubSeq(s, BlankLineMatchEnd(s, SetMin(starts)) + 1, Len(s)))

RECURSIVE SplitLines(_)
\* section.split('\n')
SplitLines(s) ==
    LET nl == {i \in 1..Len(s) : CharAt(s, i) = "\n"}
    IN  IF nl = {} THEN << s >>
        ELSE << SubSeq(s, 1, SetMin(nl) - 1) >> \o
             SplitLines(SubSeq(s, SetMin(nl) + 1, Len(s)))

\* item.replace(/^\*\s*/, '')
StripBullet(item) ==
    IF StartsWith(item, "*")
    THEN SubSeq(item, WhiteSpaceRunEnd(item, 2) + 1, Len(item))
    ELSE item

Digits == {"0", "1", "2", "3", "4", "5", "6", "7", "8", "9"}
\* the characters the regular expression's . does not match
LineTerminators == {"\n", "\r"}
\* section.match(/^(\d+\.\s*\*?.*?\*?:\s*)/): the text of group 1, or Null
NumberedHeading(section) ==
    LET nDigits == SetMax({0} \cup
                       {n \in 1..Len(section) :
                           \A j \in 1..n : CharAt(section, j) \in Digits})
        afterDot == WhiteSpaceRunEnd(section, nDigits + 2) + 1
        colons == {c \in afterDot..Len(section) :
                      /\ CharAt(section, c) = ":"
                      /\ \A j \in afterDot..(c - 1) :
                            CharAt(section, j) \notin LineTerminators}
    IN  IF nDigits = 0 \/ CharAt(section, nDigits + 1) # "." \/ colons = {}
        THEN Null
        ELSE Some(SubSeq(section, 1, WhiteSpaceRunEnd(section, SetMin(colons) + 1)))

\* what is rendered for a section: a heading with a body, a list, a paragraph
\* with a bold lead, or a plain paragraph
Heading(title, content) ==
    [block |-> "heading", head |-> title, body |-> content, items |-> << >>]
BulletList(listItems) ==
    [block |-> "list", head |-> "", body |-> "", items |-> listItems]
LeadParagraph(heading, rest) ==
    [block |-> "lead-paragraph", head |-> heading, body |-> rest, items |-> << >>]
Paragraph(text) ==
    [block |-> "paragraph", head |-> "", body |-> text, items |-> << >>]

\* the callback of sections.map
RenderSection(section) ==
    IF StartsWith(section, "**") /\ Includes(section, "**")
    THEN LET titleEnd == IndexOf(section, "**", 2)
         IN  Heading(Substring(section, 2, titleEnd),
                     Trim(SubstringFrom(section, titleEnd + 2)))
    ELSE IF StartsWith(section, "* ")
    THEN LET lines == SplitLines(section)
         IN  BulletList([n \in 1..Len(lines) |-> StripBullet(lines[n])])
    ELSE IF NumberedHeading(section) # Null
    THEN LET heading == NumberedHeading(section)[1]
         IN  LeadParagraph(heading, Trim(SubstringFrom(section, Len(heading))))
    ELSE Paragraph(section)

\* MarkdownRenderer
MarkdownRenderer(text) ==
    LET sections == SplitSections(text)
    IN  [n \in 1..Len(sections) |-> RenderSection(sections[n])]

\* the analysis panel: {summary && !activeAction && <MarkdownRenderer text={summary} />}
AnalysisPanel == IF Shown(summary) THEN Some(MarkdownRenderer(summary[1])) ELSE Null

\* the pieces analysis texts are made of
MarkdownTokens == {"**", "* ", "*", " ", "\n", "a", "1.", ":"}
RECURSIVE TextsOf(_)
\* the texts of exactly n tokens
TextsOf(n) ==
    IF n = 0 THEN {""}
    ELSE {t \o k : t \in TextsOf(n - 1), k \in MarkdownTokens}
\* response.text of an analysis: texts of 1 to MaxTokens tokens
MarkdownTexts == UNION {TextsOf(n) : n \in 1..MaxTokens}

\* the analysis call is in flight: valid inputs, a credential, Analyze clicked
MarkdownInit ==
    /\ apiKey = Some("key")
    /\ resume = "cv"
    /\ jobDescriptions = "jd"
    /\ summary = Null
    /\ coverLetter = Null
    /\ refinedResume = Null
    /\ error = Null
    /\ resumeError = Null
    /\ jobDescError = Null
    /\ isParsing = FALSE
    /\ resumeFileName = Null
    /\ activeAction = Some("analyze")
    /\ copySuccess = FALSE
    /\ pending = << [op |-> "analyze", file |-> Null] >>
    /\ clipPending = 0
    /\ timers = {}
    /\ sinceCopy = Null

\* the call resolves with an analysis text, which the panel renders
MarkdownNext == \E t \in MarkdownTexts : NetworkSettle(1, Return(t))

MarkdownSpec == MarkdownInit /\ [][MarkdownNext]_vars

(* ------------------------------ properties ----------------------------- *)
\* a string that is empty or holds white space only
IsBlank(s) == \A i \in 1..Len(s) : CharAt(s, i) \in WhiteSpace
InputsBlank == IsBlank(resume) \/ IsBlank(jobDescriptions)
\* a generateContent outcome the client treats as a failure
CallFailed(o) == ~o.ok \/ o.value = ""
\* the result field of an action
ResultOf(kind) ==
    CASE kind = "analyze" -> summary
      [] kind = "cover-letter" -> coverLetter
      [] kind = "refine-resume" -> refinedResume

\* C1: with a resume or a job description that is empty or white space only,
\* each of the three action handlers sets the inline error of every offending
\* field and starts no network call.
C1_BlankInputsRejected ==
    [][\A k \in ActionKinds :
          (StartAction(k) /\ InputsBlank) =>
             /\ IsBlank(resume) => resumeError' = Some(ResumeErrorMsg)
             /\ IsBlank(jobDescriptions) => jobDescError' = Some(JobDescErrorMsg)
             /\ pending' = pending
             /\ activeAction' = activeAction]_vars
\* an action was invoked on a white-space-only resume
C1_Witness ==
    /\ resume = " "
    /\ resumeError = Some(ResumeErrorMsg)
    /\ jobDescError = Null
    /\ pending = << >>

\* C2: at most one operation (a file parse or a generation call) is in flight,
\* and while one is, the three action buttons and the upload control are
\* disabled.
C2_AtMostOneOperation ==
    /\ Len(pending) <= 1
    /\ (isParsing \/ activeAction # Null \/ pending # << >>) =>
          /\ UploadDisabled
          /\ \A k \in ActionKinds : ActionDisabled(k)
\* a file parse is in flight and the controls are disabled
C2_Witness ==
    /\ Len(pending) = 1
    /\ pending[1].op = "parse"
    /\ isParsing
    /\ \A k \in ActionKinds : ActionDisabled(k)

\* C3: at most one of summary, coverLetter and refinedResume is non-null.
C3_ResultsExclusive ==
    Cardinality({k \in ActionKinds : ResultOf(k) # Null}) <= 1
\* a refined resume is displayed after an error-free run, the other two cleared
C3_Witness ==
    /\ Shown(refinedResume)
    /\ summary = Null
    /\ coverLetter = Null
    /\ error = Null

\* C4: without an API credential, an action invoked on valid inputs puts the
\* configuration-error message in the error banner and starts no network call.
C4_MissingKeyReported ==
    [][\A k \in ActionKinds :
          (StartAction(k) /\ ~InputsBlank /\ ~Truthy(apiKey)) =>
             /\ error' = Some(ConfigErrorMsg)
             /\ pending' = pending
             /\ activeAction' = Null]_vars
\* the configuration error is in the banner, the inputs valid
C4_Witness ==
    /\ apiKey = Null
    /\ error = Some(ConfigErrorMsg)
    /\ ~InputsBlank
    /\ pending = << >>

\* lower-case form of a file name, as extensions are compared
UpperCase == "ABCDEFGHIJKLMNOPQRSTUVWXYZ"
LowerCase == "abcdefghijklmnopqrstuvwxyz"
ToLowerChar(c) ==
    IF \E i \in 1..Len(UpperCase) : CharAt(UpperCase, i) = c
    THEN CharAt(LowerCase, CHOOSE i \in 1..Len(UpperCase) : CharAt(UpperCase, i) = c)
    ELSE c
RECURSIVE ToLower(_)
ToLower(s) ==
    IF s = "" THEN "" ELSE ToLowerChar(CharAt(s, 1)) \o ToLower(SubSeq(s, 2, Len(s)))
\* the file's name has extension .pdf or .docx
ExtensionAccepted(f) ==
    EndsWith(ToLower(f.name), ".pdf") \/ EndsWith(ToLower(f.name), ".docx")
AllExtractOutcomes == UNION {ExtractOutcomes(r) : r \in {"pdf", "docx"}}
\* this step is the end of the upload of file f
UploadCompletes(f) ==
    \/ handleFileSelect(f) /\ ~isParsing'
    \/ \E i \in 1..MaxPending : \E o \in AllExtractOutcomes :
          ParseSettle(i, o) /\ pending[i].file = Some(f)

\* C5: the upload of a file whose extension is neither .pdf nor .docx ends with
\* an "unsupported file type" error in the banner, an empty resume, no file
\* name and isParsing false; such a file never starts an extraction.
C5_OtherExtensionsRejected ==
    [][\A f \in Files :
          ~ExtensionAccepted(f) =>
             /\ handleFileSelect(f) => ~isParsing'
             /\ UploadCompletes(f) =>
                   /\ error' # Null
                   /\ Includes(error'[1], "Unsupported file type")
                   /\ resume' = ""
                   /\ resumeFileName' = Null
                   /\ ~isParsing']_vars

\* C6: a file whose extension is .pdf or .docx is handed to an extractor and
\* not rejected, whatever its declared media type.
C6_PdfAndDocxAccepted ==
    [][\A f \in Files :
          (ExtensionAccepted(f) /\ handleFileSelect(f)) =>
             /\ isParsing'
             /\ pending' = Append(pending, [op |-> "parse", file |-> Some(f)])
             /\ error' = Null]_vars

\* C7: an action that has entered a non-idle state returns to idle once its
\* network call settles, whether it resolves or rejects.
C7_ReturnsToIdle == (activeAction # Null) ~> (activeAction = Null)
\* a cover-letter call is in flight
C7_Witness ==
    /\ activeAction = Some("cover-letter")
    /\ Len(pending) = 1
    /\ pending[1].op = "cover-letter"

\* C8: when a generation call fails (no credential, a rejected call, an empty
\* response), the handler ends idle with the error banner set, its own result
\* null and no result panel displayed.
C8_FailureShown ==
    [][/\ \A i \in 1..MaxPending : \A o \in NetworkOutcomes :
             (NetworkSettle(i, o) /\ CallFailed(o)) =>
                /\ activeAction' = Null
                /\ Truthy(error')
                /\ \A k \in ActionKinds :
                      /\ pending[i].op = k => ResultOf(k)' = Null
                      /\ ~Truthy(ResultOf(k)')
       /\ \A k \in ActionKinds :
             (StartAction(k) /\ ~InputsBlank /\ ~Truthy(apiKey)) =>
                /\ activeAction' = Null
                /\ Truthy(error')
                /\ ResultOf(k)' = Null]_vars
\* a refine call has failed: idle, the banner set, nothing displayed
C8_Witness ==
    /\ activeAction = Null
    /\ pending = << >>
    /\ error = Some(RefineFailedMsg)
    /\ \A k \in ActionKinds : ResultOf(k) = Null

\* the generic message of an operation
GenericMsg(kind) ==
    CASE kind = "analyze" -> SummaryFailedMsg
      [] kind = "cover-letter" -> CoverLetterFailedMsg
      [] kind = "refine-resume" -> RefineFailedMsg
\* the failure is an Error whose message names the credential
NamesCredential(o) ==
    /\ ~o.ok
    /\ o.thrown.isError
    /\ \/ Includes(o.thrown.message, "API_KEY_INVALID")
       \/ Includes(o.thrown.message, "API key")

\* C9: once the network call has been made, a failure whose message contains
\* "API_KEY_INVALID" or "API key" surfaces as the auth message, and every other
\* failure, an empty response text included, as the operation's generic
\* "Please try again later" message.
C9_FailureMapping ==
    [][\A i \in 1..MaxPending : \A o \in NetworkOutcomes :
          (NetworkSettle(i, o) /\ CallFailed(o)) =>
             error' = Some(IF NamesCredential(o) THEN AuthErrorMsg
                           ELSE GenericMsg(pending[i].op))]_vars
\* the auth message is in the banner after a call
C9_Witness ==
    /\ apiKey # Null
    /\ error = Some(AuthErrorMsg)
    /\ activeAction = Null

\* C10: after a successful copy the "Copied!" indicator is set for exactly
\* 2 seconds: it is on while less than 2 seconds have passed since the last
\* successful copy and off once more than 2 seconds have passed.
C10_CopiedForTwoSeconds ==
    sinceCopy # Null =>
       /\ sinceCopy[1] < CopyTimeoutMs => copySuccess
       /\ sinceCopy[1] > CopyTimeoutMs => ~copySuccess

RECURSIVE ConcatAll(_)
\* the strings of a sequence, one after the other
ConcatAll(parts) ==
    IF parts = << >> THEN "" ELSE ConcatAll(SubSeq(parts, 1, Len(parts) - 1)) \o parts[Len(parts)]
\* a page's tokens with one space between neighbours, then one newline
PageLine(tokens) ==
    ConcatAll([k \in 1..Len(tokens) |->
                  tokens[k] \o (IF k < Len(tokens) THEN " " ELSE "")]) \o "\n"
\* the page lines in page order
ExpectedPdfText(pages) == ConcatAll([p \in 1..Len(pages) |-> PageLine(pages[p])])

\* C11: when the PDF extractor has read a document, the resume is set to the
\* page lines in page order, each the page's tokens joined by single spaces and
\* ended by one newline; pages Hello World / Foo Bar give
\* "Hello World\nFoo Bar\n".
C11_PdfTextJoined ==
    [][\A d \in PdfDocuments : \A i \in 1..MaxPending :
          (/\ ParseSettle(i, Return(ExtractPdfText(d)))
           /\ FileRoute(pending[i].file[1]) = "pdf") =>
             /\ resume' = ExpectedPdfText(d)
             /\ d = << <<"Hello", "World">>, <<"Foo", "Bar">> >> =>
                   resume' = "Hello World\nFoo Bar\n"]_vars
\* the two-page document has been extracted into the resume field
C11_Witness ==
    /\ resume = "Hello World\nFoo Bar\n"
    /\ resumeFileName = Some("cv.pdf")
    /\ ~isParsing
    /\ error = Null

\* C15: whenever a file name is held, the resume is the text extracted from
\* that file: a step that leaves a file name in place either changes neither
\* the resume nor the name, or is the successful end of an extraction that
\* sets the resume to the extracted text and the name to that file's name.
C15_FileNameMatchesResume ==
    [][resumeFileName' # Null =>
          \/ resume' = resume /\ resumeFileName' = resumeFileName
          \/ \E i \in 1..MaxPending : \E o \in AllExtractOutcomes :
                /\ ParseSettle(i, o)
                /\ o.ok
                /\ resume' = o.value
                /\ resumeFileName' = Some(pending[i].file[1].name)]_vars
\* a .docx file has been extracted and its name is shown
C15_Witness ==
    /\ resumeFileName = Some("cv.docx")
    /\ resume = "docx text"
    /\ ~isParsing

\* C13: while a file parse or a generation call is in flight, no other event
\* writes a field that the operation writes when it completes or fails: the
\* resume, file name, resume error, banner and isParsing for a parse; the
\* three results, banner and activeAction for a generation call.
C13_NoSharedFields ==
    [][\A i \in 1..Len(pending) :
          pending' = pending =>
             IF pending[i].op = "parse"
             THEN UNCHANGED << resume, resumeFileName, resumeError, error, isParsing >>
             ELSE UNCHANGED << summary, coverLetter, refinedResume, error,
                               activeAction >>]_vars

\* the two outcomes of a completed action
EndedInResult(k) == Shown(ResultOf(k)) /\ error = Null
EndedInError(k) == Truthy(error) /\ ResultOf(k) = Null

\* C14: an action that passed validation ends either with a non-empty result
\* of its type displayed and no error banner, or with the error banner set and
\* no result stored; an empty response text, also one that is empty after the
\* trim of the refine operation, ends in the error outcome.
C14_ResultOrError ==
    [][/\ \A i \in 1..MaxPending : \A o \in NetworkOutcomes : \A k \in ActionKinds :
             (NetworkSettle(i, o) /\ pending[i].op = k) =>
                /\ EndedInResult(k)' \/ EndedInError(k)'
                /\ (o.ok /\ Trim(o.value) = "" /\ k = "refine-resume") => EndedInError(k)'
                /\ (o.ok /\ o.value = "") => EndedInError(k)'
       /\ \A k \in ActionKinds :
             (StartAction(k) /\ ~InputsBlank /\ activeAction' = Null) =>
                EndedInError(k)']_vars

\* the section begins with a bold marker: "**", a title, "**"
BoldHeaded(section) == StartsWith(section, "**") /\ IndexOf(section, "**", 2) >= 2
\* the line with its leading "* " removed
WithoutBullet(line) ==
    IF StartsWith(line, "* ") THEN SubSeq(line, 3, Len(line)) ELSE line
\* what a section is to render as; TRUE for the numbered-heading case
RendersAsStated(section, rendered) ==
    IF BoldHeaded(section)
    THEN LET close == IndexOf(section, "**", 2)
         IN  rendered = Heading(SubSeq(section, 3, close),
                                Trim(SubSeq(section, close + 3, Len(section))))
    ELSE IF StartsWith(section, "* ")
    THEN LET lines == SplitLines(section)
         IN  rendered = BulletList([n \in 1..Len(lines) |-> WithoutBullet(lines[n])])
    ELSE IF NumberedHeading(section) # Null
    THEN TRUE
    ELSE rendered = Paragraph(section)

\* C12: the analysis panel renders one block per section of the text, the
\* sections being split on blank lines: a section beginning with "**title**" as
\* a heading title with the trimmed rest as body, a section beginning with "* "
\* as a list with one item per line, each the line without its leading "* ",
\* and a section of no special case as a plain paragraph with its text
\* unchanged.
C12_MarkdownRendering ==
    AnalysisPanel # Null =>
       LET sections == SplitSections(summary[1])
           rendered == AnalysisPanel[1]
       IN  /\ Len(rendered) = Len(sections)
           /\ \A n \in 1..Len(sections) : RendersAsStated(sections[n], rendered[n])

====
